---- MODULE Spec2Model ----
(***************************************************************************)
(* HttpServerTransport (src/src/mcp/HttpServerTransport.ts) and the middy  *)
(* middleware that drives it (src/src/mcp/index.ts).                       *)
(*                                                                         *)
(* One JavaScript event loop: a synchronous block runs to its next await   *)
(* without interleaving.  `running` names the invocation whose synchronous *)
(* block of handleJSONRPCMessages is executing (0: none).  The RPC engine  *)
(* is external: it may call send from inside an onmessage call             *)
(* (synchronously) or later, from its own asynchronous work.               *)
(***************************************************************************)
EXTENDS Integers, Sequences, FiniteSets, TLC

\* ------------------------------------------------------------------ bounds
MaxLen == 2        \* messages in one request body
MaxStartCalls == 2 \* calls of start() on the instance that are counted

Ids == {1, 2}      \* correlation ids in use

\* Invocations in flight.  A serializing host uses the first lane only; the
\* second holds an invocation that arrives while another is still running.
Lanes == {"first", "second"}
NoLane == "none"

\* An invocation is named by the lane that holds it, until the lane takes the
\* next one; from then on it is an earlier invocation, one that had produced
\* its HTTP response ("completed") or one the host had given up ("abandoned").
Earlier == {"completed", "abandoned"}

\* ---------------------------------------------------------------- messages
\* A JSON-RPC message is a record; which fields it has is what the code tests.
Request(i) == [method |-> "tools/call", id |-> i]
Notification == [method |-> "notifications/initialized"]
ClientResponse(i) == [id |-> i, result |-> "client"]

\* What the engine emits.  The payload of a Response names the invocation
\* whose Request it answers.
ResultResponse(i, n) == [id |-> i, result |-> n]
ErrorResponse(i, n) == [id |-> i, error |-> n]
ServerRequest(i) == [method |-> "ping", id |-> i]
ServerNotification == [method |-> "notifications/message"]

InputMessages ==
  {Request(i) : i \in Ids} \cup {Notification} \cup {ClientResponse(i) : i \in Ids}

RECURSIVE SeqsUpTo(_, _)
SeqsUpTo(S, n) ==
  IF n = 0 THEN {<<>>}
  ELSE LET shorter == SeqsUpTo(S, n - 1)
       IN  shorter \cup {Append(s, x) : s \in {t \in shorter : Len(t) = n - 1}, x \in S}

Batches == SeqsUpTo(InputMessages, MaxLen)

\* ------------------------------------------------- HttpServerTransport.ts
\* A slip: the test of isResponseMessage used for isRequestMessage.
isRequestMessageIdOnly(message) == "id" \in DOMAIN message

isRequestMessage(message) ==
  "method" \in DOMAIN message /\ "id" \in DOMAIN message

isResponseMessage(message) == "id" \in DOMAIN message

\* A slip: the batch awaited unfiltered.
FilterKeepsAll(s) == s

\* jsonRPCMessages.filter(isRequestMessage)
RECURSIVE Filter(_)
Filter(s) ==
  IF s = <<>> THEN <<>>
  ELSE IF isRequestMessage(Head(s)) THEN <<Head(s)>> \o Filter(Tail(s))
       ELSE Filter(Tail(s))

\* An unsettled promise.
Pending == [state |-> "pending"]
\* The three shapes of Promise<JSONRPCMessage[] | JSONRPCMessage | undefined>.
Undefined == [kind |-> "undefined"]
Single(m) == [kind |-> "message", value |-> m]
Array(s) == [kind |-> "array", value |-> s]
\* handleJSONRPCMessages has not returned / request.response is not set.
NotReturned == [kind |-> "none"]
NoResponse == [statusCode |-> 0, body |-> NotReturned]
\* The body "" and the body JSON.stringify(v).
EmptyBody == [kind |-> "empty"]
Stringify(v) == [kind |-> "json", value |-> v]

\* A table entry is the resolve function of promise k of invocation n: <<n, k>>.
NoEntry == <<NoLane, 0>>
EmptyTable == [i \in {} |-> NoEntry]

\* ---------------------------------------------------------- the pre-phase
\* A header value is the sequence of the pieces of its text.
MediaJson == <<"application/json">>
MediaJsonCharset == <<"application/json", "; charset=utf-8">>
MediaOther == <<"text/event-stream">>

\* The ways one header can arrive: absent, under its lower-case name, under
\* its capitalized name, or under both names with different values.
HeaderOptions(lower, upper) ==
  { << >>,
    [n \in {lower} |-> MediaJson],
    [n \in {lower} |-> MediaOther],
    [n \in {upper} |-> MediaJsonCharset],
    [n \in {lower, upper} |-> IF n = lower THEN MediaOther ELSE MediaJson] }

Merge(f, g) == [n \in DOMAIN f \cup DOMAIN g |-> IF n \in DOMAIN f THEN f[n] ELSE g[n]]

Headers ==
  { Merge(a, c) : a \in HeaderOptions("accept", "Accept"),
                  c \in HeaderOptions("content-type", "Content-Type") }

\* A message object the schema rejects: a Request without its method.
RequestWithoutMethod(i) == [id |-> i]

Elements == InputMessages \cup {RequestWithoutMethod(i) : i \in Ids}

\* What the body's text says once decoded: no JSON at all, one JSON object, or
\* a JSON array of objects.
Documents ==
  {[json |-> "malformed"]}
    \cup {[json |-> "object", object |-> m] : m \in Elements}
    \cup {[json |-> "array", array |-> s] : s \in SeqsUpTo(Elements, MaxLen)}

\* event.body: null, or a text that is a document either as it is or in base64.
NullBody == [text |-> FALSE]
Bodies ==
  {NullBody} \cup {[text |-> TRUE, base64 |-> e, document |-> d] :
                     e \in BOOLEAN, d \in Documents}

Events ==
  {[headers |-> h, body |-> b, isBase64Encoded |-> f] :
     h \in Headers, b \in Bodies, f \in BOOLEAN}

NoEvent == [headers |-> << >>, body |-> NullBody, isBase64Encoded |-> FALSE, none |-> TRUE]

\* headers?.[lower] ?? headers?.[upper]
HeaderValue(headers, lower, upper) ==
  IF lower \in DOMAIN headers THEN [defined |-> TRUE, value |-> headers[lower]]
  ELSE IF upper \in DOMAIN headers THEN [defined |-> TRUE, value |-> headers[upper]]
  ELSE [defined |-> FALSE, value |-> <<>>]

\* value.includes(piece)
Includes(value, piece) == \E k \in 1..Len(value) : value[k] = piece

\* isBase64Encoded ? Buffer.from(body, "base64").toString() : body
\* A text read the wrong way round is no JSON.
Decode(body, isBase64Encoded) ==
  IF body.base64 = isBase64Encoded THEN body.document
  ELSE [json |-> "malformed"]

\* JSON.parse(decodedBody), then Array.isArray(parsed) ? parsed : [parsed]
ParseThrows(document) == document.json = "malformed"
AsArray(document) ==
  IF document.json = "array" THEN document.array ELSE <<document.object>>

\* JSONRPCMessageSchema: a Request, a Notification, a Response or an Error.
Conforms(m) ==
  \/ "method" \in DOMAIN m /\ DOMAIN m \subseteq {"method", "id"}
  \/ DOMAIN m = {"id", "result"}
  \/ DOMAIN m = {"id", "error"}

\* A slip: the schema applied to the first element only.
SchemaThrowsOnHead(messages) == Len(messages) > 0 /\ ~Conforms(messages[1])

\* z.array(JSONRPCMessageSchema): every element has to conform.
SchemaThrows(messages) == \E k \in 1..Len(messages) : ~Conforms(messages[k])

PlaceholderId == 123
ServerError == -32000

\* createMcpError: the http error whose message is the serialized envelope.
createMcpError(httpStatusCode, mcpError) ==
  [statusCode |-> httpStatusCode,
   message |-> Stringify([error |-> mcpError, id |-> PlaceholderId])]

NotAcceptable ==
  createMcpError(406, [code |-> ServerError,
                       message |-> "Not Acceptable: Client must accept application/json"])
UnsupportedMediaType ==
  createMcpError(415, [code |-> ServerError,
                       message |-> "Unsupported Media Type: Content-Type must be application/json"])
UnprocessableEntity ==
  createMcpError(422, [code |-> ServerError,
                       message |-> "Unprocessable Entity: Invalid or malformed JSON was provided"])

Threw(err) == [threw |-> TRUE, error |-> err, jsonRPCMessages |-> <<>>]
Stored(messages) == [threw |-> FALSE, error |-> NotAcceptable, jsonRPCMessages |-> messages]

\* A slip: the parsed array stored without the schema applied.
parseBodyUnvalidated(body, isBase64Encoded) ==
  IF ~body.text THEN Threw(UnprocessableEntity)
  ELSE LET document == Decode(body, isBase64Encoded)
       IN  IF ParseThrows(document) THEN Threw(UnprocessableEntity)
           ELSE Stored(AsArray(document))

\* The body part of before(): the try block and its catch.
parseBody(body, isBase64Encoded) ==
  IF ~body.text THEN Threw(UnprocessableEntity)
  ELSE LET document == Decode(body, isBase64Encoded)
       IN  IF ParseThrows(document) \/ SchemaThrows(AsArray(document))
           THEN Threw(UnprocessableEntity)
           ELSE Stored(AsArray(document))

\* A slip: the two header checks in the other order.
beforeContentTypeFirst(e) ==
  LET acceptHeaderValue == HeaderValue(e.headers, "accept", "Accept")
      contentTypeHeaderValue == HeaderValue(e.headers, "content-type", "Content-Type")
  IN  IF ~contentTypeHeaderValue.defined
         \/ ~Includes(contentTypeHeaderValue.value, "application/json")
      THEN Threw(UnsupportedMediaType)
      ELSE IF ~acceptHeaderValue.defined
              \/ ~Includes(acceptHeaderValue.value, "application/json")
           THEN Threw(NotAcceptable)
           ELSE parseBody(e.body, e.isBase64Encoded)

\* A slip: the body parsed ahead of the header checks.
beforeBodyFirst(e) ==
  LET acceptHeaderValue == HeaderValue(e.headers, "accept", "Accept")
      contentTypeHeaderValue == HeaderValue(e.headers, "content-type", "Content-Type")
      parsed == parseBody(e.body, e.isBase64Encoded)
  IN  IF parsed.threw THEN parsed
      ELSE IF ~acceptHeaderValue.defined
              \/ ~Includes(acceptHeaderValue.value, "application/json")
           THEN Threw(NotAcceptable)
           ELSE IF ~contentTypeHeaderValue.defined
                   \/ ~Includes(contentTypeHeaderValue.value, "application/json")
                THEN Threw(UnsupportedMediaType)
                ELSE parsed

\* before(): either throws an http error or stores context.jsonRPCMessages.
before(e) ==
  LET acceptHeaderValue == HeaderValue(e.headers, "accept", "Accept")
      contentTypeHeaderValue == HeaderValue(e.headers, "content-type", "Content-Type")
  IN  IF ~acceptHeaderValue.defined \/ ~Includes(acceptHeaderValue.value, "application/json")
      THEN Threw(NotAcceptable)
      ELSE IF ~contentTypeHeaderValue.defined
              \/ ~Includes(contentTypeHeaderValue.value, "application/json")
           THEN Threw(UnsupportedMediaType)
           ELSE parseBody(e.body, e.isBase64Encoded)

\* httpErrorHandler: the response made of an http error.
httpErrorHandler(err) == [statusCode |-> err.statusCode, body |-> err.message]


VARIABLES
  _started,          \* HttpServerTransport._started
  _pendingRequests,  \* HttpServerTransport._pendingRequests: id -> <<invocation, k>>
  onmessage,         \* TRUE once the engine installed its callback
  serverReady,       \* the promise server.connect(transport) returned
  startCalls,        \* calls of start() so far
  startThrew,        \* whether the latest start() call threw
  running,           \* lane whose synchronous block is executing, or NoLane
  pc,                \* lane -> where its invocation is
  batch,             \* lane -> request.context.jsonRPCMessages
  pos,               \* lane -> next message to hand to onmessage
  slots,             \* lane -> the promises handed to Promise.all
  order,             \* lane -> the promises' indexes, in the order they were resolved
  result,            \* lane -> what handleJSONRPCMessages returned
  response,          \* lane -> request.response
  delivered,         \* lane -> the messages onmessage was called with, in call order
  received,          \* engine: <<invocation, id>> of every Request it was given
  responded,         \* engine: <<invocation, id>> of the Requests in flight it has
                     \* called send with a Response for
  overlapped,        \* whether an invocation ever arrived while another was running
  freshPending,      \* the table of an adapter constructed afresh for the newest
                     \* invocation and given the same calls as the reused one
  freshSlots,        \* the promises that fresh adapter handed to Promise.all
  event              \* the HTTP event of the invocation in progress, when the
                     \* pre-phase ran on one (NoEvent otherwise)

vars == <<_started, _pendingRequests, onmessage, serverReady, startCalls, startThrew,
          running, pc, batch, pos, slots, order, result, response, delivered,
          received, responded, overlapped, freshPending, freshSlots, event>>

adapterVars == <<_started, _pendingRequests>>
connectVars == <<onmessage, serverReady, startCalls, startThrew>>
laneVars == <<running, pc, batch, pos, slots, order, result, response, delivered,
              overlapped, event>>
engineVars == <<received, responded>>
freshVars == <<freshPending, freshSlots>>

Init ==
  /\ _started = FALSE
  /\ _pendingRequests = EmptyTable
  /\ onmessage = FALSE
  /\ serverReady = "none"
  /\ startCalls = 0
  /\ startThrew = FALSE
  /\ running = NoLane
  /\ pc = [l \in Lanes |-> "idle"]
  /\ batch = [l \in Lanes |-> <<>>]
  /\ pos = [l \in Lanes |-> 1]
  /\ slots = [l \in Lanes |-> <<>>]
  /\ order = [l \in Lanes |-> <<>>]
  /\ result = [l \in Lanes |-> NotReturned]
  /\ response = [l \in Lanes |-> NoResponse]
  /\ delivered = [l \in Lanes |-> <<>>]
  /\ received = {}
  /\ responded = {}
  /\ overlapped = FALSE
  /\ freshPending = EmptyTable
  /\ freshSlots = <<>>
  /\ event = NoEvent

\* ------------------------------------------------------------ the adapter
\* A slip: start() without its guard.
startUnguarded(started, table) ==
  [threw |-> FALSE, started |-> TRUE, pending |-> table]

\* start(): throws when already started and changes nothing then.
start(started, table) ==
  IF started
  THEN [threw |-> TRUE, started |-> started, pending |-> table]
  ELSE [threw |-> FALSE, started |-> TRUE, pending |-> table]

\* A slip: the entry resolved and left in the table.
sendKeepsEntry(table, message) ==
  IF isResponseMessage(message) /\ message.id \in DOMAIN table
  THEN [pending |-> table, resolve |-> table[message.id]]
  ELSE [pending |-> table, resolve |-> NoEntry]

\* send(message): the table after the call, and the promise it resolved
\* (NoEntry: none).
send(table, message) ==
  IF isResponseMessage(message) /\ message.id \in DOMAIN table
  THEN [pending |-> [i \in DOMAIN table \ {message.id} |-> table[i]],
        resolve |-> table[message.id]]
  ELSE [pending |-> table, resolve |-> NoEntry]

\* A slip: the reset keeps the entries.
_startFreshSessionKeeps(table) == table

\* _startFreshSession(): this._pendingRequests.clear()
_startFreshSession(table) == EmptyTable

\* new HttpServerTransport(): _pendingRequests = new Map()
NewTable == EmptyTable

\* requestMessages.map(r => new Promise(... this._pendingRequests.set(r.id, ...))):
\* the executors run in order, so a later Request with the same id replaces
\* the entry of an earlier one.
\* requestMessage.id as a Map key: the field's value, and the one key
\* `undefined` (written 0, which no message carries) where the field is absent.
KeyOf(requestMessage) == IF "id" \in DOMAIN requestMessage THEN requestMessage.id ELSE 0

\* A slip: an id already in the table keeps its entry.
RECURSIVE SetAllKeepsFirst(_, _, _, _)
SetAllKeepsFirst(table, requestMessages, n, k) ==
  IF k > Len(requestMessages) THEN table
  ELSE LET i == KeyOf(requestMessages[k])
           set == [j \in DOMAIN table \cup {i} |->
                     IF j \in DOMAIN table THEN table[j] ELSE <<n, k>>]
       IN  SetAllKeepsFirst(set, requestMessages, n, k + 1)

RECURSIVE SetAll(_, _, _, _)
SetAll(table, requestMessages, n, k) ==
  IF k > Len(requestMessages) THEN table
  ELSE LET i == KeyOf(requestMessages[k])
           set == [j \in DOMAIN table \cup {i} |-> IF j = i THEN <<n, k>> ELSE table[j]]
       IN  SetAll(set, requestMessages, n, k + 1)

NewPromises(requestMessages) == [k \in 1..Len(requestMessages) |-> Pending]

\* resolve(message) on promise k: a settled promise ignores further resolves.
Resolved(promises, k, message) ==
  IF k \in 1..Len(promises) /\ promises[k] = Pending
  THEN [promises EXCEPT ![k] = message]
  ELSE promises

AllSettled(promises) == \A k \in 1..Len(promises) : promises[k] # Pending

\* A slip: the values collected as they arrive.
PromiseAllInArrivalOrder(promises, resolvedOrder) ==
  [k \in 1..Len(promises) |->
     IF k <= Len(resolvedOrder) THEN promises[resolvedOrder[k]] ELSE Pending]

\* Promise.all: the values in the order of the promises given, whatever the
\* order they were resolved in.
PromiseAll(promises, resolvedOrder) == promises

\* A slip: the array returned whatever its length.
ReturnValueAlwaysArray(responseMessages) == Array(responseMessages)

\* return responseMessages.length > 1 ? responseMessages : responseMessages[0]
ReturnValue(responseMessages) ==
  IF Len(responseMessages) > 1 THEN Array(responseMessages)
  ELSE Single(responseMessages[1])

\* A slip: an error payload answered as a failure.
RenderErrorAsFailure(responseMessages) ==
  IF responseMessages = Undefined
  THEN [statusCode |-> 202, body |-> EmptyBody]
  ELSE IF responseMessages.kind = "message" /\ "error" \in DOMAIN responseMessages.value
       THEN [statusCode |-> 500, body |-> Stringify(responseMessages)]
       ELSE [statusCode |-> 200, body |-> Stringify(responseMessages)]

\* index.ts after(): the response rendered from what the adapter returned.
Render(responseMessages) ==
  IF responseMessages # Undefined
  THEN [statusCode |-> 200, body |-> Stringify(responseMessages)]
  ELSE [statusCode |-> 202, body |-> EmptyBody]

\* ------------------------------------------------------------- the engine
\* What the engine owes a Response for: a message with a method and an id.
AsksForResponse(message) ==
  "method" \in DOMAIN message /\ "id" \in DOMAIN message

\* Everything the engine may pass to send: a Response (result or error) to a
\* Request it was given, a request of its own, a notification.
EngineMessages ==
  {ResultResponse(r[2], r[1]) : r \in received}
    \cup {ErrorResponse(r[2], r[1]) : r \in received}
    \cup {ServerRequest(i) : i \in Ids}
    \cup {ServerNotification}

\* The invocation whose Request a Response answers (NoLane: not a Response of
\* the engine).
Origin(message) ==
  IF "method" \in DOMAIN message \/ "id" \notin DOMAIN message THEN NoLane
  ELSE IF "result" \in DOMAIN message THEN message.result
  ELSE IF "error" \in DOMAIN message THEN message.error
  ELSE NoLane

IsResponseTo(message, r) == Origin(message) = r[1] /\ message.id = r[2]

\* --------------------------------------------------- naming of invocations
\* Lane l takes a new invocation: the one it held becomes an earlier one.
Era(l) == IF pc[l] = "done" THEN "completed" ELSE "abandoned"

RetireName(n, l) == IF n = l THEN Era(l) ELSE n

RetireMessage(m, l) ==
  IF Origin(m) # l THEN m
  ELSE IF "result" \in DOMAIN m THEN [m EXCEPT !.result = Era(l)]
  ELSE [m EXCEPT !.error = Era(l)]

RetireTable(table, l) ==
  [i \in DOMAIN table |-> IF table[i][1] = l THEN <<Era(l), 0>> ELSE table[i]]

RetirePromises(promises, l) ==
  [k \in DOMAIN promises |-> RetireMessage(promises[k], l)]

RetireValue(v, l) ==
  IF v.kind = "message" THEN Single(RetireMessage(v.value, l))
  ELSE IF v.kind = "array" THEN Array(RetirePromises(v.value, l))
  ELSE v

\* ---------------------------------------------------------------- actions
\* index.ts:58  server.connect(transport): the engine installs onmessage and
\* calls start(); the promise settles later.
Connect ==
  /\ serverReady = "none"
  /\ LET s == start(_started, _pendingRequests)
     IN  /\ _started' = s.started
         /\ _pendingRequests' = s.pending
         /\ startThrew' = s.threw
         /\ serverReady' = IF s.threw THEN "rejected" ELSE "pending"
  /\ onmessage' = TRUE
  /\ startCalls' = startCalls + 1
  /\ UNCHANGED <<laneVars, engineVars, freshVars>>

ConnectSettles ==
  /\ serverReady = "pending"
  /\ serverReady' = "fulfilled"
  /\ UNCHANGED <<adapterVars, onmessage, startCalls, startThrew, laneVars, engineVars,
                 freshVars>>

\* Any later call of start() on the instance.
StartAgain ==
  /\ onmessage
  /\ startCalls < MaxStartCalls
  /\ LET s == start(_started, _pendingRequests)
     IN  /\ _started' = s.started
         /\ _pendingRequests' = s.pending
         /\ startThrew' = s.threw
  /\ startCalls' = startCalls + 1
  /\ UNCHANGED <<onmessage, serverReady, laneVars, engineVars, freshVars>>

\* close(): async () => {}
Close ==
  /\ onmessage
  /\ UNCHANGED vars

\* One call send(message), from wherever the engine makes it.
SendCall(message) ==
  LET s == send(_pendingRequests, message)
      f == send(freshPending, message)
  IN  /\ _pendingRequests' = s.pending
      /\ slots' = [l \in Lanes |->
                     IF s.resolve[1] = l THEN Resolved(slots[l], s.resolve[2], message)
                     ELSE slots[l]]
      /\ order' = [l \in Lanes |->
                     IF s.resolve[1] = l
                        /\ Resolved(slots[l], s.resolve[2], message) # slots[l]
                     THEN Append(order[l], s.resolve[2])
                     ELSE order[l]]
      /\ freshPending' = f.pending
      /\ freshSlots' = IF f.resolve[1] \in Lanes
                       THEN Resolved(freshSlots, f.resolve[2], message)
                       ELSE freshSlots
      /\ responded' = responded \cup {r \in received : r[1] \in Lanes /\ IsResponseTo(message, r)}
      /\ UNCHANGED <<_started, connectVars, running, pc, batch, event, pos, result, response,
                     delivered, overlapped, received>>

\* The engine calls send from inside an onmessage call.
EngineSendsInsideOnmessage ==
  /\ running # NoLane
  /\ pc[running] = "dispatch"
  /\ Len(delivered[running]) > 0
  /\ \E message \in EngineMessages : SendCall(message)

\* The engine calls send from its own asynchronous work.
EngineSendsLater ==
  /\ onmessage
  /\ running = NoLane
  /\ \E message \in EngineMessages : SendCall(message)

\* The host hands the process an invocation whose pre-phase stored `b`; lane l
\* holds it from now on.
Arrive(l, b) ==
  /\ onmessage
  /\ pc[l] = "idle"
  /\ pc' = [pc EXCEPT ![l] = "after"]
  /\ batch' = [batch EXCEPT ![l] = b]
  /\ UNCHANGED <<adapterVars, connectVars, running, pos, slots, order, result, response,
                 delivered, engineVars, freshVars, event>>

\* The invocation of lane l is over (its response went to the host, or the host
\* gave it up): its context is destroyed, and it is an earlier invocation now.
Leave(l) ==
  /\ pc[l] \in {"done", "timedout", "rejected"}
  /\ pc' = [pc EXCEPT ![l] = "idle"]
  /\ event' = NoEvent
  /\ batch' = [batch EXCEPT ![l] = <<>>]
  /\ pos' = [pos EXCEPT ![l] = 1]
  /\ delivered' = [delivered EXCEPT ![l] = <<>>]
  /\ slots' = [k \in Lanes |-> IF k = l THEN <<>> ELSE RetirePromises(slots[k], l)]
  /\ order' = [order EXCEPT ![l] = <<>>]
  /\ result' = [k \in Lanes |-> IF k = l THEN NotReturned ELSE RetireValue(result[k], l)]
  /\ response' = [k \in Lanes |->
                    IF k = l THEN NoResponse
                    ELSE [response[k] EXCEPT !.body =
                            IF @.kind = "json" THEN Stringify(RetireValue(@.value, l)) ELSE @]]
  /\ _pendingRequests' = RetireTable(_pendingRequests, l)
  /\ freshPending' = RetireTable(freshPending, l)
  /\ freshSlots' = RetirePromises(freshSlots, l)
  /\ received' = {<<RetireName(r[1], l), r[2]>> : r \in received}
  /\ responded' = {r \in responded : r[1] # l}
  /\ UNCHANGED <<_started, connectVars, running, overlapped>>

\* The host serializes: the previous invocation has ended.  (Once two
\* invocations have overlapped, the model follows those two and takes no more.)
Begin ==
  /\ ~overlapped
  /\ \A l \in Lanes : pc[l] = "idle"
  /\ \E b \in Batches : Arrive("first", b)
  /\ UNCHANGED overlapped

\* The host hands the process an invocation with HTTP event e: before() runs
\* on it.  When it throws, the post-phase is skipped and httpErrorHandler makes
\* the response; otherwise the batch is in the context and the post-phase is
\* next.
BeginHttpFrom(events) ==
  /\ ~overlapped
  /\ \A l \in Lanes : pc[l] = "idle"
  /\ onmessage
  /\ \E e \in events :
       LET r == before(e)
       IN  /\ event' = e
           /\ IF r.threw
              THEN /\ pc' = [pc EXCEPT !["first"] = "rejected"]
                   /\ response' = [response EXCEPT !["first"] = httpErrorHandler(r.error)]
                   /\ UNCHANGED batch
              ELSE /\ pc' = [pc EXCEPT !["first"] = "after"]
                   /\ batch' = [batch EXCEPT !["first"] = r.jsonRPCMessages]
                   /\ UNCHANGED response
  /\ UNCHANGED <<adapterVars, connectVars, running, pos, slots, order, result, delivered,
                 overlapped, engineVars, freshVars>>

\* The events of a host that lower-cases header names and passes the body as
\* plain text.
HostEvents ==
  {e \in Events : /\ DOMAIN e.headers \subseteq {"accept", "content-type"}
                  /\ ~e.isBase64Encoded
                  /\ e.body.text => ~e.body.base64}

BeginHttp == BeginHttpFrom(HostEvents)

\* The first invocation of the process, on any event.
BeginHttpFirst == received = {} /\ BeginHttpFrom(Events)

\* The host does not serialize: an invocation arrives while another is running.
BeginConcurrent ==
  /\ ~overlapped
  /\ pc["first"] \in {"after", "await", "returned"}
  /\ \E b \in Batches : Arrive("second", b)
  /\ overlapped' = TRUE

\* A slip: the promise not awaited.
NotAwaited(promise) == TRUE

\* await promise: the code after it runs once the promise is fulfilled.
Awaited(promise) == promise = "fulfilled"

\* index.ts:113-118 and HttpServerTransport.ts:51: past `await serverReady`,
\* handleJSONRPCMessages is called and resets the table.
HandleStart(l) ==
  /\ pc[l] = "after"
  /\ Awaited(serverReady)
  /\ running = NoLane
  /\ running' = l
  /\ _pendingRequests' = _startFreshSession(_pendingRequests)
  /\ pc' = [pc EXCEPT ![l] = "dispatch"]
  /\ freshPending' = NewTable
  /\ freshSlots' = <<>>
  /\ UNCHANGED <<_started, connectVars, batch, event, pos, slots, order, result, response,
                 delivered, overlapped, engineVars>>

\* A slip: only the Requests handed to the engine.
CallOnmessageForRequests(calls, message) ==
  IF isRequestMessage(message) THEN Append(calls, message) ELSE calls

\* this.onmessage(message): one more call, after the calls made so far.
CallOnmessage(calls, message) == Append(calls, message)

\* HttpServerTransport.ts:53-55: this.onmessage?.(message), one message.
Dispatch(l) ==
  /\ running = l
  /\ pc[l] = "dispatch"
  /\ pos[l] <= Len(batch[l])
  /\ LET message == batch[l][pos[l]]
     IN  /\ delivered' = [delivered EXCEPT ![l] =
                            IF onmessage THEN CallOnmessage(@, message) ELSE @]
         /\ received' = IF onmessage /\ AsksForResponse(message)
                        THEN received \cup {<<l, message.id>>}
                        ELSE received
  /\ pos' = [pos EXCEPT ![l] = @ + 1]
  /\ UNCHANGED <<adapterVars, connectVars, running, pc, batch, event, slots, order, result,
                 response, overlapped, responded, freshVars>>

\* HttpServerTransport.ts:56-72: filter, then either `return;` or the promises
\* are created (their executors fill the table) and the call awaits them.
HandleFilter(l) ==
  /\ running = l
  /\ pc[l] = "dispatch"
  /\ pos[l] > Len(batch[l])
  /\ running' = NoLane
  /\ LET requestMessages == Filter(batch[l])
     IN  IF Len(requestMessages) = 0
         THEN /\ result' = [result EXCEPT ![l] = Undefined]
              /\ pc' = [pc EXCEPT ![l] = "returned"]
              /\ UNCHANGED <<_pendingRequests, slots, freshVars>>
         ELSE /\ _pendingRequests' = SetAll(_pendingRequests, requestMessages, l, 1)
              /\ slots' = [slots EXCEPT ![l] = NewPromises(requestMessages)]
              /\ freshPending' = SetAll(freshPending, requestMessages, l, 1)
              /\ freshSlots' = NewPromises(requestMessages)
              /\ pc' = [pc EXCEPT ![l] = "await"]
              /\ UNCHANGED result
  /\ UNCHANGED <<_started, connectVars, batch, event, pos, order, response, delivered,
                 overlapped, engineVars>>

\* HttpServerTransport.ts:65-74: every promise is settled; the call returns.
HandleReturn(l) ==
  /\ pc[l] = "await"
  /\ running = NoLane
  /\ AllSettled(slots[l])
  /\ result' = [result EXCEPT ![l] = ReturnValue(PromiseAll(slots[l], order[l]))]
  /\ pc' = [pc EXCEPT ![l] = "returned"]
  /\ UNCHANGED <<adapterVars, connectVars, running, batch, event, pos, slots, order, response,
                 delivered, overlapped, engineVars, freshVars>>

\* index.ts:122-134: the response is rendered.
AfterRespond(l) ==
  /\ pc[l] = "returned"
  /\ running = NoLane
  /\ response' = [response EXCEPT ![l] = Render(result[l])]
  /\ pc' = [pc EXCEPT ![l] = "done"]
  /\ UNCHANGED <<adapterVars, connectVars, running, batch, event, pos, slots, order, result,
                 delivered, overlapped, engineVars, freshVars>>

\* No timeout inside the adapter: a call that waits on a promise nothing has
\* settled ends only when the host gives up on the invocation.
HostTimeout(l) ==
  /\ pc[l] = "await"
  /\ ~AllSettled(slots[l])
  /\ pc' = [pc EXCEPT ![l] = "timedout"]
  /\ UNCHANGED <<adapterVars, connectVars, running, batch, event, pos, slots, order, result,
                 response, delivered, overlapped, engineVars, freshVars>>

\* The code of one invocation.
Run(l) ==
  \/ HandleStart(l)
  \/ Dispatch(l)
  \/ HandleFilter(l)
  \/ HandleReturn(l)
  \/ AfterRespond(l)

Step(l) ==
  \/ Run(l)
  \/ HostTimeout(l)
  \/ Leave(l)

Next ==
  \/ Connect
  \/ ConnectSettles
  \/ Close
  \/ Begin
  \/ EngineSendsInsideOnmessage
  \/ EngineSendsLater
  \/ \E l \in Lanes : Step(l)

Spec == Init /\ [][Next]_vars

\* Serialized invocations, each with its pre-phase.
NextPre ==
  \/ Connect
  \/ ConnectSettles
  \/ BeginHttp
  \/ EngineSendsInsideOnmessage
  \/ EngineSendsLater
  \/ \E l \in Lanes : Step(l)

SpecPre == Init /\ [][NextPre]_vars

\* The pre-phase on every event, and the one invocation that follows.
NextBefore ==
  \/ Connect
  \/ ConnectSettles
  \/ BeginHttpFirst
  \/ EngineSendsInsideOnmessage
  \/ EngineSendsLater
  \/ \E l \in Lanes : Step(l)

SpecBefore == Init /\ [][NextBefore]_vars

\* The first invocation of the process.
BeginFirst == received = {} /\ Begin

\* One invocation, and start() called again at any point of it.
NextStart ==
  \/ Connect
  \/ ConnectSettles
  \/ StartAgain
  \/ Close
  \/ BeginFirst
  \/ EngineSendsInsideOnmessage
  \/ EngineSendsLater
  \/ \E l \in Lanes : Step(l)

SpecStart == Init /\ [][NextStart]_vars

\* Two invocations on one instance, the second arriving while the first runs.

NextConcurrent ==
  \/ Connect
  \/ ConnectSettles
  \/ BeginFirst
  \/ BeginConcurrent
  \/ EngineSendsInsideOnmessage
  \/ EngineSendsLater
  \/ \E l \in Lanes : Run(l)

SpecConcurrent == Init /\ [][NextConcurrent]_vars

\* ------------------------------------------------------------- properties
IsRequest(m) == m \in {Request(i) : i \in Ids}
RequestsOf(b) == SelectSeq(b, IsRequest)
DistinctIds(reqs) ==
  \A j, k \in 1..Len(reqs) : j # k => reqs[j].id # reqs[k].id
HasId(m, i) == "id" \in DOMAIN m /\ m.id = i
Returned(l) == pc[l] \in {"returned", "done"}
\* The messages of a return value, as a sequence.
Messages(v) ==
  IF v.kind = "array" THEN v.value
  ELSE IF v.kind = "message" THEN <<v.value>>
  ELSE <<>>
Mixed(b) ==
  /\ \E j \in 1..Len(b) : IsRequest(b[j])
  /\ \E j \in 1..Len(b) : b[j] = Notification

\* C1: a batch of N >= 2 Requests with pairwise distinct ids returns a
\* sequence of length N whose i-th element carries the id of the i-th Request
\* of the input, whatever the order in which the engine's sends resolved them.
C1_BatchInInputOrder ==
  \A l \in Lanes :
    LET reqs == RequestsOf(batch[l])
    IN  (Returned(l) /\ Len(reqs) >= 2 /\ DistinctIds(reqs))
          => /\ result[l].kind = "array"
             /\ Len(result[l].value) = Len(reqs)
             /\ \A k \in 1..Len(reqs) : HasId(result[l].value[k], reqs[k].id)

\* C1 witness: two Requests answered by the engine in the reverse of the input
\* order, and the call has returned.
C1_Witness ==
  LET reqs == RequestsOf(batch["first"])
  IN  /\ pc["first"] = "done"
      /\ Len(reqs) = 2
      /\ DistinctIds(reqs)
      /\ order["first"] = <<2, 1>>
      /\ \A k \in 1..2 : Origin(slots["first"][k]) = "first"

\* C2 (as claimed): no lost response.  With serialized invocations, the
\* handshake complete and distinct ids, a Request the engine has called send
\* with a Response for is not still awaited.
C2_NoLostResponse ==
  \A l \in Lanes :
    LET reqs == RequestsOf(batch[l])
    IN  (pc[l] = "await" /\ ~overlapped /\ serverReady = "fulfilled" /\ DistinctIds(reqs))
          => \A k \in 1..Len(reqs) :
               <<l, reqs[k].id>> \in responded => slots[l][k] # Pending

\* C3 (as claimed): a Response of an earlier, completed invocation resolves no
\* promise of the invocation in flight.
C3_StaleResponseDropped ==
  \A l \in Lanes : \A k \in 1..Len(slots[l]) : Origin(slots[l][k]) # "completed"

\* C4 (as claimed): a message that carries a method resolves no promise.
C4_OnlyResponsesResolve ==
  \A l \in Lanes : \A k \in 1..Len(slots[l]) : "method" \notin DOMAIN slots[l][k]

\* C5: a batch without a Request has every message handed to onmessage, makes
\* no table entry and no promise, returns undefined without waiting, and is
\* rendered 202 with an empty body.
C5_NoRequestNoReply ==
  \A l \in Lanes :
    (pc[l] # "idle" /\ Len(RequestsOf(batch[l])) = 0)
      => /\ pc[l] \notin {"await", "timedout"}
         /\ slots[l] = <<>>
         /\ \A i \in DOMAIN _pendingRequests : _pendingRequests[i][1] # l
         /\ Returned(l) => (result[l] = Undefined /\ delivered[l] = batch[l])
         /\ pc[l] = "done" => response[l] = [statusCode |-> 202, body |-> EmptyBody]

\* C5 witness: a notification and a Response-shaped message, answered 202.
C5_Witness ==
  /\ pc["first"] = "done"
  /\ Len(batch["first"]) >= 2
  /\ \E j \in 1..Len(batch["first"]) : batch["first"][j] = Notification
  /\ \E j \in 1..Len(batch["first"]) : batch["first"][j] \in {ClientResponse(i) : i \in Ids}
  /\ Len(RequestsOf(batch["first"])) = 0
  /\ response["first"].statusCode = 202

\* C6: for a batch of Requests and Notifications the call waits on one
\* promise per Request and none for a Notification, can return as soon as the
\* Requests' promises are resolved, and returns one message per Request.
C6_NotificationsNeverAwaited ==
  \A l \in Lanes :
    LET reqs == RequestsOf(batch[l])
    IN  Mixed(batch[l])
          => /\ pc[l] \in {"await", "timedout"} => Len(slots[l]) = Len(reqs)
             /\ (pc[l] = "await" /\ running = NoLane
                   /\ \A k \in 1..Len(reqs) : k \in DOMAIN slots[l] /\ slots[l][k] # Pending)
                  => ENABLED HandleReturn(l)
             /\ Returned(l)
                  => /\ Len(Messages(result[l])) = Len(reqs)
                     /\ \A k \in 1..Len(Messages(result[l])) :
                          /\ "id" \in DOMAIN Messages(result[l])[k]
                          /\ \E j \in 1..Len(reqs) : Messages(result[l])[k].id = reqs[j].id

\* C6 witness: a Notification ahead of a Request, answered 200.
C6_Witness ==
  /\ pc["first"] = "done"
  /\ Mixed(batch["first"])
  /\ batch["first"][1] = Notification
  /\ response["first"].statusCode = 200

\* C7: the shape of the return value follows the number k of Requests:
\* undefined for 0, one message with that Request's id for 1, an array of k
\* messages for k >= 2.
C7_ShapeByRequestCount ==
  \A l \in Lanes :
    LET reqs == RequestsOf(batch[l])
    IN  Returned(l)
          => /\ Len(reqs) = 0 => result[l] = Undefined
             /\ Len(reqs) = 1 => (result[l].kind = "message"
                                   /\ HasId(result[l].value, reqs[1].id))
             /\ Len(reqs) >= 2 => (result[l].kind = "array"
                                    /\ Len(result[l].value) = Len(reqs))

\* C7 witness: one Request beside a Response-shaped message returns a single
\* message.
C7_Witness ==
  /\ pc["first"] = "returned"
  /\ Len(batch["first"]) = 2
  /\ Len(RequestsOf(batch["first"])) = 1
  /\ \E j \in 1..2 : batch["first"][j] \in {ClientResponse(i) : i \in Ids}
  /\ result["first"].kind = "message"

\* Lane l waits on a promise that no table entry can resolve any more, although
\* the ids of its Requests are distinct.
Orphaned(l) ==
  /\ pc[l] = "await"
  /\ DistinctIds(RequestsOf(batch[l]))
  /\ \E k \in 1..Len(slots[l]) :
       /\ slots[l][k] = Pending
       /\ \A i \in DOMAIN _pendingRequests : _pendingRequests[i] # <<l, k>>

\* C8 (as claimed): when two invocations overlap on the one adapter, a
\* Response the engine sends for a Request of the invocation whose entries the
\* other's reset discarded is dropped: it resolves no promise of the other.
C8_DiscardedResponsesDropped ==
  \A l \in Lanes : \A m \in Lanes \ {l} :
    \A k \in 1..Len(slots[m]) : Origin(slots[m][k]) # l

\* C8, the part that holds with overlapping invocations: an invocation whose
\* entries were discarded stays waiting whatever happens next.
C8_OrphanedNeverCompletes ==
  [][\A l \in Lanes : Orphaned(l) => Orphaned(l)']_vars

\* C8, the part that holds with serialized invocations: no invocation waits on
\* a promise whose entry is gone.
C8_SerializedNeverOrphaned ==
  \A l \in Lanes : ~Orphaned(l)

\* C8, the state the claim describes: the first invocation orphaned by the
\* reset of the second.
C8_OrphanedReached ==
  /\ overlapped
  /\ Orphaned("first")
  /\ pc["second"] \in {"await", "returned", "done"}

\* C9: with serialized invocations, from the reset on, the reused adapter holds
\* the same table and the same promises, settled with the same messages, as an
\* adapter constructed afresh for the invocation and given the same calls; the
\* return value and the response are functions of those promises.
C9_WarmEqualsFresh ==
  (~overlapped /\ pc["first"] \in {"dispatch", "await", "returned", "done", "timedout"})
    => /\ _pendingRequests = freshPending
       /\ slots["first"] = freshSlots

\* C9 witness: an invocation answered 200 on an adapter on which an earlier
\* invocation with the same Request id was given up unanswered.
C9_Witness ==
  /\ pc["first"] = "done"
  /\ response["first"].statusCode = 200
  /\ \E i \in Ids : {<<"abandoned", i>>, <<"first", i>>} \subseteq received

\* C10: the first call of start() succeeds and sets the flag; every later call
\* throws, and a call that throws leaves the flag and the table as they were.
C10_StartOnce ==
  [][(startCalls' # startCalls)
       => /\ startThrew' = (startCalls >= 1)
          /\ startThrew' => UNCHANGED <<_started, _pendingRequests>>
          /\ ~startThrew' => _started']_vars

\* C10 witness: a second start() threw while handleJSONRPCMessages was
\* waiting, after the engine had sent, and the table still holds an entry.
C10_Witness ==
  /\ startCalls = 2
  /\ startThrew
  /\ _started
  /\ pc["first"] = "await"
  /\ responded # {}
  /\ DOMAIN _pendingRequests # {}

\* ------------------------------------------------- the pre-phase's claims
\* What a request asks for, read off the event itself.
AcceptOk(e) ==
  LET v == HeaderValue(e.headers, "accept", "Accept")
  IN  v.defined /\ Includes(v.value, "application/json")

ContentTypeOk(e) ==
  LET v == HeaderValue(e.headers, "content-type", "Content-Type")
  IN  v.defined /\ Includes(v.value, "application/json")

\* The body is a text, read the way isBase64Encoded says, that is JSON: one
\* message or an array of messages.
BodyOk(e) ==
  /\ e.body.text
  /\ e.body.base64 = e.isBase64Encoded
  /\ e.body.document.json # "malformed"
  /\ LET d == e.body.document
     IN  IF d.json = "object" THEN d.object \in InputMessages
         ELSE \A k \in 1..Len(d.array) : d.array[k] \in InputMessages

Acceptable(e) == AcceptOk(e) /\ ContentTypeOk(e) /\ BodyOk(e)

InPrePhaseCase == event # NoEvent /\ pc["first"] # "idle"

\* The engine and the adapter have seen nothing of the invocation.
Untouched(l) ==
  /\ delivered[l] = <<>>
  /\ batch[l] = <<>>
  /\ slots[l] = <<>>
  /\ result[l] = NotReturned
  /\ running # l
  /\ \A r \in received : r[1] # l

\* C11: an invocation whose request fails negotiation or payload validation is
\* answered 406, 415 or 422 by the pre-phase; onmessage is invoked for none of
\* its messages, handleJSONRPCMessages is not called, and the step that
\* rejects it leaves the table as it was.
C11_RejectedNeverReachesEngine ==
  [][/\ (event' # NoEvent /\ pc'["first"] # "idle" /\ ~Acceptable(event'))
          => /\ pc'["first"] = "rejected"
             /\ response'["first"].statusCode \in {406, 415, 422}
             /\ Untouched("first")'
     /\ (pc["first"] = "idle" /\ pc'["first"] = "rejected")
          => UNCHANGED <<_pendingRequests, received, responded, delivered, slots>>
     /\ pc["first"] = "rejected" => pc'["first"] \in {"rejected", "idle"}]_vars

\* C11 witness: a request with an invalid body is rejected while the table
\* still holds an entry an earlier invocation left behind.
C11_Witness ==
  /\ pc["first"] = "rejected"
  /\ response["first"].statusCode = 422
  /\ \E i \in DOMAIN _pendingRequests : _pendingRequests[i][1] = "abandoned"

RejectedWith(status) ==
  pc["first"] = "rejected" /\ response["first"].statusCode = status

\* C12 (as claimed): a request without application/json in its accept header
\* is answered 406, and a request without application/json in its
\* content-type header is answered 415, whatever the body.
C12_HeadersDecideStatus ==
  InPrePhaseCase
    => /\ ~AcceptOk(event) => RejectedWith(406)
       /\ ~ContentTypeOk(event) => RejectedWith(415)

\* C12 (amended): a request without application/json in its accept header is
\* answered 406, and a request whose accept header is acceptable and whose
\* content-type header is without application/json is answered 415, whatever
\* the body.
C12_HeadersDecideStatusAcceptFirst ==
  InPrePhaseCase
    => /\ ~AcceptOk(event) => RejectedWith(406)
       /\ (AcceptOk(event) /\ ~ContentTypeOk(event)) => RejectedWith(415)

\* C12 witness: a request with a valid body answered 415.
C12_Witness ==
  /\ RejectedWith(415)
  /\ BodyOk(event)
  /\ Len(AsArray(event.body.document)) > 0

\* C13: with acceptable headers, a body that is absent, does not decode or
\* parse, or holds one element that is no message, is answered 422 with
\* nothing stored in the context and nothing dispatched; and the body of every
\* 406, 415 and 422 response is the envelope with code -32000 and the id 123.
C13_AllOrNothing422 ==
  InPrePhaseCase
    => /\ (AcceptOk(event) /\ ContentTypeOk(event) /\ ~BodyOk(event))
            => (RejectedWith(422) /\ Untouched("first"))
       /\ pc["first"] = "rejected"
            => /\ response["first"].statusCode \in {406, 415, 422}
               /\ response["first"].body.kind = "json"
               /\ DOMAIN response["first"].body.value = {"error", "id"}
               /\ response["first"].body.value.id = PlaceholderId
               /\ response["first"].body.value.error.code = ServerError

\* C13 witness: an array whose first element is a Request and whose second is
\* no message, under acceptable headers, answered 422.
C13_Witness ==
  /\ RejectedWith(422)
  /\ event.body.text
  /\ event.body.base64 = event.isBase64Encoded
  /\ event.body.document.json = "array"
  /\ Len(event.body.document.array) = 2
  /\ IsRequest(event.body.document.array[1])
  /\ event.body.document.array[2] \notin InputMessages

\* C14: handleJSONRPCMessages is called, and a message handed to onmessage,
\* only once the handshake the constructor began has completed: start() has
\* been called, onmessage is installed and serverReady is fulfilled.
C14_DispatchAfterHandshake ==
  \A l \in Lanes :
    (pc[l] \in {"dispatch", "await", "returned", "done", "timedout"}
       \/ delivered[l] # <<>> \/ running = l)
      => /\ serverReady = "fulfilled"
         /\ startCalls >= 1
         /\ _started
         /\ onmessage

\* C14 witness: the first message of a batch has been handed to onmessage.
C14_Witness ==
  /\ pc["first"] = "dispatch"
  /\ Len(delivered["first"]) = 1
  /\ Len(batch["first"]) = 2
  /\ serverReady = "fulfilled"

\* C15: the response of a completed invocation is 202 with the empty body
\* exactly when the adapter returned undefined, and otherwise 200 with the
\* serialized reply, whether the reply holds results or errors.
C15_ResponseFollowsReply ==
  \A l \in Lanes :
    pc[l] = "done"
      => /\ response[l].statusCode \in {200, 202}
         /\ (response[l].statusCode = 202) <=> (result[l] = Undefined)
         /\ (response[l].statusCode = 202) => (response[l].body = EmptyBody)
         /\ (response[l].statusCode = 200) => (response[l].body = Stringify(result[l]))

\* C15 witness: a single Request the engine answered with an error payload,
\* answered 200.
C15_Witness ==
  /\ pc["first"] = "done"
  /\ response["first"].statusCode = 200
  /\ result["first"].kind = "message"
  /\ "error" \in DOMAIN result["first"].value
  /\ Origin(result["first"].value) = "first"

C17_SentAfterReceivedIsDelivered ==
  \A l \in Lanes :
    LET reqs == RequestsOf(batch[l])
    IN  (/\ ~overlapped
         /\ pc[l] \in {"await", "returned", "done"}
         /\ DistinctIds(reqs)
         /\ \A k \in 1..Len(slots[l]) : slots[l][k] = Pending \/ Origin(slots[l][k]) = l)
          => \A k \in 1..Len(reqs) :
               <<l, reqs[k].id>> \in responded
                 => /\ k \in 1..Len(slots[l])
                    /\ Origin(slots[l][k]) = l
                    /\ HasId(slots[l][k], reqs[k].id)

\* A Response: an id, a result or an error, and no method.
IsResponse(m) ==
  /\ "id" \in DOMAIN m
  /\ "method" \notin DOMAIN m
  /\ "result" \in DOMAIN m \/ "error" \in DOMAIN m

\* C18 (as claimed): handleJSONRPCMessages has returned a reply only where
\* every promise of the call was resolved by a Response, so a call for which
\* the engine sends no Response to some Request does not complete.
C18_ReplyOnlyWhenAllAnswered ==
  \A l \in Lanes :
    (Returned(l) /\ result[l] # Undefined)
      => \A k \in 1..Len(slots[l]) : IsResponse(slots[l][k])

\* C18, the part that holds: a waiting call leaves the wait only by returning
\* with every promise settled, or because the host gave the invocation up; no
\* promise is ever rejected, and a settled promise came from a send call.
C18_WaitEndsOnlySettled ==
  [][\A l \in Lanes :
       /\ (pc[l] = "await" /\ pc'[l] # "await")
            => \/ pc'[l] = "returned" /\ AllSettled(slots[l])
               \/ pc'[l] = "timedout"
       /\ \A k \in 1..Len(slots[l]) :
            (slots[l][k] = Pending /\ k \in 1..Len(slots'[l]) /\ slots'[l][k] # Pending)
              => /\ "id" \in DOMAIN slots'[l][k]
                 /\ slots'[l][k].id \in DOMAIN _pendingRequests
                 /\ slots'[l][k].id \notin DOMAIN _pendingRequests']_vars

\* C19: the calls of onmessage made for a batch are, at every moment, a prefix
\* of the batch (each message once, in input order, whatever its kind); no
\* promise and no table entry of the call exists before the last of them, and
\* the call waits or has returned only after all of them.
C19_DispatchAllInOrderFirst ==
  \A l \in Lanes :
    /\ Len(delivered[l]) <= Len(batch[l])
    /\ delivered[l] = SubSeq(batch[l], 1, Len(delivered[l]))
    /\ pc[l] = "dispatch"
         => /\ slots[l] = <<>>
            /\ \A i \in DOMAIN _pendingRequests : _pendingRequests[i][1] # l
    /\ pc[l] \in {"await", "returned", "done", "timedout"} => delivered[l] = batch[l]

\* C19 witness: a Response-shaped message and a Notification were both handed
\* to onmessage, in that order, and the call has returned.
C19_Witness ==
  /\ pc["first"] = "returned"
  /\ Len(batch["first"]) = 2
  /\ batch["first"][1] \in {ClientResponse(i) : i \in Ids}
  /\ batch["first"][2] = Notification
  /\ delivered["first"] = batch["first"]

\* A step of the engine or of the connection: no invocation moves.
NoLaneMoves == pc' = pc /\ running' = running

\* C20: a settled promise keeps its value; a send call that finds an entry
\* removes that one entry, leaves the others as they were and settles the one
\* promise the entry stood for, with a message of the entry's id; a send call
\* that finds no entry changes neither the table nor any promise.
C20_ResolveOnceAndFrame ==
  [][NoLaneMoves
       => /\ \A l \in Lanes : \A k \in 1..Len(slots[l]) :
               slots[l][k] # Pending => slots'[l][k] = slots[l][k]
          /\ \A l \in Lanes : Len(slots'[l]) = Len(slots[l])
          /\ _pendingRequests' # _pendingRequests
               => \E i \in DOMAIN _pendingRequests :
                    /\ DOMAIN _pendingRequests' = DOMAIN _pendingRequests \ {i}
                    /\ \A j \in DOMAIN _pendingRequests' :
                         _pendingRequests'[j] = _pendingRequests[j]
                    /\ \A l \in Lanes : \A k \in 1..Len(slots[l]) :
                         IF _pendingRequests[i] = <<l, k>>
                         THEN HasId(slots'[l][k], i)
                         ELSE slots'[l][k] = slots[l][k]
          /\ _pendingRequests' = _pendingRequests => slots' = slots]_vars

\* C20 witness: of two awaited Requests one has been answered; its entry is
\* gone and the other's entry and promise are as they were.
C20_Witness ==
  LET reqs == RequestsOf(batch["first"])
  IN  /\ pc["first"] = "await"
      /\ Len(reqs) = 2
      /\ DistinctIds(reqs)
      /\ Origin(slots["first"][1]) = "first"
      /\ slots["first"][2] = Pending
      /\ DOMAIN _pendingRequests = {reqs[2].id}
      /\ _pendingRequests[reqs[2].id] = <<"first", 2>>

\* C21: when two Requests of a batch carry the same id, the table holds one
\* entry for the id, standing for the later Request's promise; the earlier
\* Request's promise stays pending whatever the engine sends, and the call
\* does not return.
C21_DuplicateIdNeverCompletes ==
  \A l \in Lanes :
    LET reqs == RequestsOf(batch[l])
    IN  \A j \in 1..Len(reqs) : \A k \in 1..Len(reqs) :
          (/\ ~overlapped
           /\ j < k
           /\ reqs[j].id = reqs[k].id
           /\ pc[l] \in {"await", "returned", "done", "timedout"})
            => /\ pc[l] \in {"await", "timedout"}
               /\ Len(slots[l]) = Len(reqs)
               /\ slots[l][j] = Pending
               /\ \A i \in DOMAIN _pendingRequests : _pendingRequests[i] # <<l, j>>

\* C21 witness: two Requests with one id; the engine has sent a Response, the
\* later Request's promise holds it, the entry is gone and the call waits on
\* the earlier Request's promise.
C21_Witness ==
  LET reqs == RequestsOf(batch["first"])
  IN  /\ pc["first"] = "await"
      /\ Len(reqs) = 2
      /\ reqs[1].id = reqs[2].id
      /\ <<"first", reqs[1].id>> \in responded
      /\ slots["first"][1] = Pending
      /\ Origin(slots["first"][2]) = "first"
      /\ _pendingRequests = EmptyTable

\* C22: with serialized invocations the table is empty whenever
\* handleJSONRPCMessages has returned, with a reply or without; it is still
\* empty when the completed invocation is over, and only the next call's
\* promises put an entry into an empty table.
C22_EmptyTableAfterReturn ==
  [][\A l \in Lanes :
       /\ (~overlapped' /\ pc'[l] \in {"returned", "done"}) => _pendingRequests' = EmptyTable
       /\ (~overlapped /\ pc[l] = "done" /\ pc'[l] = "idle") => _pendingRequests' = EmptyTable
       /\ (_pendingRequests = EmptyTable /\ _pendingRequests' # EmptyTable)
            => \E m \in Lanes : pc[m] = "dispatch" /\ pc'[m] = "await"]_vars

\* C22 witness: a call that made two entries has returned its reply, and the
\* table is empty.
C22_Witness ==
  /\ pc["first"] = "returned"
  /\ result["first"].kind = "array"
  /\ Len(slots["first"]) = 2
  /\ \A k \in 1..2 : Origin(slots["first"][k]) = "first"
  /\ _pendingRequests = EmptyTable

\* The status the first failing check gives, 0 when every check passes.
FirstFailure(e) ==
  IF ~AcceptOk(e) THEN 406
  ELSE IF ~ContentTypeOk(e) THEN 415
  ELSE IF ~BodyOk(e) THEN 422
  ELSE 0

\* C23: the request is answered with the status of the first check it fails,
\* in the order accept, content-type, body, and is not rejected when it fails
\* none; so 422 is answered only to requests whose two headers are acceptable.
C23_FirstFailingCheckDecides ==
  InPrePhaseCase
    => /\ FirstFailure(event) # 0 => RejectedWith(FirstFailure(event))
       /\ FirstFailure(event) = 0
            => (pc["first"] # "rejected" /\ batch["first"] = AsArray(event.body.document))
       /\ RejectedWith(422) => (AcceptOk(event) /\ ContentTypeOk(event))

\* C23 witness: a request that fails all three checks is answered 406.
C23_Witness ==
  /\ RejectedWith(406)
  /\ ~AcceptOk(event)
  /\ ~ContentTypeOk(event)
  /\ ~BodyOk(event)
  /\ event.body.text
====
